---- MODULE Spec2Model ----
(***************************************************************************)
(* RewardFunction.gen of social_robotics_reward/reward_function.py: the    *)
(* generator that merges an audio and a video frame stream, closes a       *)
(* window every period_s of stream time and yields one RewardSignal per    *)
(* closed window; and RewardSignalVisualizer.draw_reward_signal of         *)
(* social_robotics_reward/viz.py, which keeps the signals of the last      *)
(* reward_window_width seconds.                                            *)
(*                                                                         *)
(* Units.  Timestamps and period_s are integers counting tenths of a       *)
(* second (5 is 0.5 s).  Probabilities are integers counting 1/ProbScale,  *)
(* coefficients are integers counting 1/CoefScale, and a reward is kept as *)
(* an exact fraction num/den, so no rounding enters a comparison.          *)
(***************************************************************************)
EXTENDS Integers, Sequences, FiniteSets, TLC

\* ---------------------------------------------------------------- bounds
MaxFrames == 3
MaxTime == 3
MaxPeriod == 2
\* the sources that are run against every classifier behaviour
MaxFramesAnyClassifier == 2
MaxTimeAnyClassifier == 1

\* the visualizer: calls of draw_reward_signal, the timestamps drawn, the
\* widest reward_window_width
MaxDraws == 3
MaxSignalTime == 3
MaxWidth == 2

\* 1.0 as a probability, and 1.0 as a coefficient
ProbScale == 2
CoefScale == 10

VARIABLES
    video_src,              \* every frame gen_video_frames will produce
    audio_src,              \* every frame gen_audio_frames will produce
    video_pos,              \* frames pulled from gen_video_frames so far
    audio_pos,              \* frames pulled from gen_audio_frames so far
    period_s,               \* the argument of gen
    video_classifier,       \* self._video_classifier: "happy" | "any"
    audio_classifier,       \* self._audio_classifier: "happy" | "any"
    video_frames,           \* the video buffer
    audio_frames,           \* the audio buffer
    timestamp_last,
    timestamp_current,
    included_video_frames,
    included_audio_frames,
    df_video_emotions,
    df_audio_emotions,
    pc,                     \* "start" | "loop" | "yielded" | "done" | "raised"
    error,                  \* "none" | "RuntimeError" | "ValueError"
    signals,                \* the RewardSignals yielded so far, in order
    windows,                \* per yielded signal: the frames it was computed from
    last_pull,              \* the stream the last merge step pulled from
    pulled                  \* the frames pulled so far, in pull order

\* RewardSignalVisualizer
VARIABLES
    reward_window_width,    \* self._reward_window_width
    time_begin,             \* self._time_begin: "None" | "set"
    reward_signal,          \* self._reward_signal
    max_observed_reward,    \* self._max_observed_reward
    min_observed_reward,    \* self._min_observed_reward
    previously_observed_video_emotions,
    previously_observed_audio_emotions,
    drawn                   \* the signals drawn so far, in arrival order

gen_vars == <<video_src, audio_src, video_pos, audio_pos, period_s,
              video_classifier, audio_classifier, video_frames,
              audio_frames, timestamp_last, timestamp_current,
              included_video_frames, included_audio_frames, df_video_emotions,
              df_audio_emotions, pc, error, signals, windows, last_pull, pulled>>

viz_vars == <<reward_window_width, time_begin, reward_signal, max_observed_reward,
              min_observed_reward, previously_observed_video_emotions,
              previously_observed_audio_emotions, drawn>>

vars == <<gen_vars, viz_vars>>

\* ---------------------------------------------------------------- helpers
Min(a, b) == IF a <= b THEN a ELSE b

Last(s) == s[Len(s)]

RECURSIVE SumSeq(_)
SumSeq(s) == IF s = << >> THEN 0 ELSE s[1] + SumSeq(Tail(s))

RECURSIVE SumSet(_, _)
SumSet(S, f) ==
    IF S = {} THEN 0
    ELSE CHOOSE sum \in {f[x] + SumSet(S \ {x}, f) : x \in {CHOOSE y \in S : TRUE}} : TRUE

RECURSIVE Flatten(_)
Flatten(ss) == IF ss = << >> THEN << >> ELSE ss[1] \o Flatten(Tail(ss))

\* ---------------------------------------------------------------- frame sources
NonDecreasing(ts) == \A i \in 1..(Len(ts) - 1) : ts[i] <= ts[i + 1]

\* the timestamp sequences of up to max_frames frames, none later than max_time
TimestampSeqs(max_frames, max_time) ==
    {ts \in UNION {[1..n -> 0..max_time] : n \in 0..max_frames} : NonDecreasing(ts)}

\* A frame: its timestamp and its payload, the payload being identified by source
\* and position.
Frame(kind, ts, i) == [timestamp_s |-> ts[i], kind |-> kind, id |-> i]

Source(kind, ts) == [i \in 1..Len(ts) |-> Frame(kind, ts, i)]

\* next(gen): whether the generator has another frame, and that frame
Exhausted(src, pos) == pos >= Len(src)

NextFrame(src, pos) == src[pos + 1]

\* ---------------------------------------------------------------- classifiers
\* One entry of a face's proba_list: a single-label mapping.
E(label, p) == [label |-> label, p |-> p]

HappyFace ==
    [proba_list |-> <<E("angry", 0), E("disgust", 0), E("fear", 0),
                      E("happy", ProbScale), E("sad", 0), E("surprise", 0),
                      E("neutral", 0)>>]

SadFace ==
    [proba_list |-> <<E("angry", 0), E("disgust", 0), E("fear", 0),
                      E("happy", 0), E("sad", 1), E("surprise", 0),
                      E("neutral", 1)>>]

\* a face whose proba_list lacks a label
MissingFace ==
    [proba_list |-> <<E("angry", 0), E("disgust", 0), E("fear", 0),
                      E("happy", ProbScale), E("sad", 0), E("surprise", 0)>>]

\* a face whose proba_list has a label more
ExtraFace ==
    [proba_list |-> <<E("angry", 0), E("disgust", 0), E("fear", 0),
                      E("happy", 1), E("sad", 0), E("surprise", 0),
                      E("neutral", 0), E("contempt", 1)>>]

\* What detect_emotion_for_single_frame may return for one frame: a list of
\* faces, none included.
VideoClassifierOutputs ==
    {<< >>, <<HappyFace>>, <<HappyFace, SadFace>>, <<MissingFace>>, <<ExtraFace>>,
     <<HappyFace, MissingFace>>}

\* What the video classifier may return for a frame: the "happy" classifier
\* sees one happy face in every frame, the "any" classifier may return any of
\* the outputs above.
VideoClassifierRange(classifier) ==
    IF classifier = "happy" THEN {<<HappyFace>>} ELSE VideoClassifierOutputs

\* What predict_proba may return for one frame: one mapping from label to
\* probability.
AudioClassifierOutputs ==
    {[happy |-> ProbScale, neutral |-> 0, sad |-> 0],
     [happy |-> 0, neutral |-> 1, sad |-> 1],
     [happy |-> ProbScale, neutral |-> 0],
     [happy |-> 1, neutral |-> 0, sad |-> 0, angry |-> 1]}

\* What the audio classifier may return for a frame.
AudioClassifierRange(classifier) ==
    IF classifier = "happy" THEN {[happy |-> ProbScale, neutral |-> 0, sad |-> 0]}
    ELSE AudioClassifierOutputs

\* {key: value for emotion in face['proba_list'] for key, value in emotion.items()}
\* a later entry of the same label replaces an earlier one
FaceRow(face) ==
    LET pl == face.proba_list
        labels == {pl[i].label : i \in 1..Len(pl)}
        LastAt(l) == CHOOSE i \in 1..Len(pl) :
                        /\ pl[i].label = l
                        /\ \A j \in 1..Len(pl) : pl[j].label = l => j <= i
    IN  [l \in labels |-> pl[LastAt(l)].p]

\* the rows of video_frame_predictions: for frame in included, for face in
\* detect(frame); outs[i] is the classifier's list of faces for frame i
VideoPredictions(outs) ==
    LET faces == Flatten(outs)
    IN  [i \in 1..Len(faces) |-> FaceRow(faces[i])]

\* ---------------------------------------------------------------- pandas
\* pd.DataFrame(data=list of dicts): one row per dict, the columns are the keys
\* seen in any row; a row without a column holds NaN there.
DataFrame(rows) ==
    [rows |-> rows, columns |-> UNION {DOMAIN rows[i] : i \in 1..Len(rows)}]

\* DataFrame.empty: some axis has length 0
DataFrameEmpty(df) == Len(df.rows) = 0 \/ df.columns = {}

\* An Optional[float]: None, NaN, or the number num/den in lowest terms.  A
\* division by zero (the mean of no cell) is NaN.
None == [kind |-> "None", num |-> 0, den |-> 1]
NaN == [kind |-> "nan", num |-> 0, den |-> 1]

Abs(n) == IF n < 0 THEN -n ELSE n

RECURSIVE Gcd(_, _)
Gcd(a, b) == IF b = 0 THEN a ELSE Gcd(b, a % b)

Float(n, d) ==
    IF d = 0 THEN NaN
    ELSE LET g == Gcd(Abs(n), d)
         IN  [kind |-> "float", num |-> n \div g, den |-> d \div g]

\* The mean over the rows of the dot product of a row with the coefficients.
MeanOverRows(series, df) ==
    LET cols == DOMAIN series \cup df.columns
        n == Len(df.rows)
        IsNaN(i, c) == c \notin DOMAIN df.rows[i] \/ c \notin DOMAIN series
        RowSum(i) == SumSet(cols, [c \in cols |-> series[c] * df.rows[i][c]])
    IN  IF \E i \in 1..n, c \in cols : IsNaN(i, c)
        THEN NaN
        ELSE Float(SumSeq([i \in 1..n |-> RowSum(i)]), n * CoefScale * ProbScale)

\* (series * df).to_numpy().mean(): the series is aligned on the columns, the
\* product is taken cell by cell (NaN where a row lacks the column), and the mean
\* is over every cell of the resulting array.
CellMean(series, df) ==
    LET cols == DOMAIN series \cup df.columns
        n == Len(df.rows)
        IsNaN(i, c) == c \notin DOMAIN df.rows[i] \/ c \notin DOMAIN series
        RowSum(i) == SumSet(cols, [c \in cols |-> series[c] * df.rows[i][c]])
    IN  IF \E i \in 1..n, c \in cols : IsNaN(i, c)
        THEN NaN
        ELSE Float(SumSeq([i \in 1..n |-> RowSum(i)]),
                   n * Cardinality(cols) * CoefScale * ProbScale)

\* ---------------------------------------------------------------- reward
wt_audio == 1
wt_video == 1

series_audio_coefficients ==
    [happy |-> 1 * CoefScale, neutral |-> -1, sad |-> -1 * CoefScale]

series_video_coefficients ==
    [angry |-> -1 * CoefScale, disgust |-> -1 * CoefScale, fear |-> -1 * CoefScale,
     happy |-> 1 * CoefScale, sad |-> -1 * CoefScale, surprise |-> 0, neutral |-> 0]

\* the guards of the two raise ValueError statements
LabelsAcceptedSubset(series, df) ==
    DataFrameEmpty(df) \/ df.columns \subseteq DOMAIN series

LabelsAccepted(series, df) ==
    DataFrameEmpty(df) \/ DOMAIN series = df.columns

\* None if df.empty else (series * df).to_numpy().mean()
ModalityRewardNeverNone(series, df) == CellMean(series, df)

ModalityReward(series, df) ==
    IF DataFrameEmpty(df) THEN None ELSE CellMean(series, df)

\* x if x is not None else 0.0
OrZero(x) == IF x.kind = "None" THEN Float(0, 1) ELSE x

Scale(w, x) == IF x.kind = "nan" THEN NaN ELSE Float(w * x.num, x.den)

Plus(x, y) ==
    IF x.kind = "nan" \/ y.kind = "nan" THEN NaN
    ELSE Float(x.num * y.den + y.num * x.den, x.den * y.den)

CombinedRewardAudioOnly(audio_reward, video_reward) ==
    Scale(wt_audio, OrZero(audio_reward))

CombinedReward(audio_reward, video_reward) ==
    Plus(Scale(wt_audio, OrZero(audio_reward)), Scale(wt_video, OrZero(video_reward)))

RewardSignal(ts, combined, audio, video, dfa, dfv) ==
    [timestamp_s |-> ts, combined_reward |-> combined, audio_reward |-> audio,
     video_reward |-> video, detected_audio_emotions |-> dfa,
     detected_video_emotions |-> dfv]

\* ---------------------------------------------------------------- gen
\* audio_frames[-1].timestamp_s < video_frames[-1].timestamp_s
AudioLagsOrTies(af, vf) == Last(af).timestamp_s <= Last(vf).timestamp_s

AudioLeads(af, vf) == Last(af).timestamp_s > Last(vf).timestamp_s

AudioLags(af, vf) == Last(af).timestamp_s < Last(vf).timestamp_s

\* timestamp_current - timestamp_last >= period_s
WindowClosesEarly(current, last, period) == current - last >= period - 1

WindowClosesStrictly(current, last, period) == current - last > period

WindowCloses(current, last, period) == current - last >= period

\* [frame for frame in frames if frame.timestamp_s < timestamp_current]
IncludedUpTo(frames, current) ==
    SelectSeq(frames, LAMBDA frame : frame.timestamp_s <= current)

IncludedAll(frames, current) == frames

Included(frames, current) ==
    SelectSeq(frames, LAMBDA frame : frame.timestamp_s < current)

\* [frame for frame in frames if frame.timestamp_s >= timestamp_current]
RetainedAfter(frames, current) ==
    SelectSeq(frames, LAMBDA frame : frame.timestamp_s > current)

RetainedAll(frames, current) == frames

Retained(frames, current) ==
    SelectSeq(frames, LAMBDA frame : frame.timestamp_s >= current)

\* except StopIteration: return
StopIterationUncaught == [pc |-> "raised", error |-> "RuntimeError"]

StopIterationSwallowed == [pc |-> "loop", error |-> "none"]

StopIterationCaught == [pc |-> "done", error |-> "none"]

\* The classifier's outputs for a list of frames, one per frame.
Outputs(frames, range) == [1..Len(frames) -> range]

\* RewardSignalVisualizer.__init__
InitVisualizer(width) ==
    /\ reward_window_width = width
    /\ time_begin = "None"
    /\ reward_signal = << >>
    /\ previously_observed_video_emotions = {}
    /\ previously_observed_audio_emotions = {}
    /\ max_observed_reward = Float(1, 1)
    /\ min_observed_reward = Float(-1, 1)
    /\ drawn = << >>

\* a run of gen alone: a visualizer that is never drawn on
NoVisualizer == InitVisualizer(0)

InitLocals ==
    /\ video_pos = 0
    /\ audio_pos = 0
    /\ video_frames = << >>
    /\ audio_frames = << >>
    /\ timestamp_last = 0
    /\ timestamp_current = 0
    /\ included_video_frames = << >>
    /\ included_audio_frames = << >>
    /\ df_video_emotions = DataFrame(<< >>)
    /\ df_audio_emotions = DataFrame(<< >>)
    /\ pc = "start"
    /\ error = "none"
    /\ signals = << >>
    /\ windows = << >>
    /\ last_pull = "none"
    /\ pulled = << >>

\* any two sources, classifiers that answer "happy"
InitHappy ==
    /\ \E ts \in TimestampSeqs(MaxFrames, MaxTime) : video_src = Source("video", ts)
    /\ \E ts \in TimestampSeqs(MaxFrames, MaxTime) : audio_src = Source("audio", ts)
    /\ period_s \in 0..MaxPeriod
    /\ video_classifier = "happy"
    /\ audio_classifier = "happy"
    /\ InitLocals
    /\ NoVisualizer

\* shorter sources, classifiers that may answer anything
InitAnyClassifier ==
    /\ \E ts \in TimestampSeqs(MaxFramesAnyClassifier, MaxTimeAnyClassifier) :
          video_src = Source("video", ts)
    /\ \E ts \in TimestampSeqs(MaxFramesAnyClassifier, MaxTimeAnyClassifier) :
          audio_src = Source("audio", ts)
    /\ period_s \in 0..MaxPeriod
    /\ video_classifier = "any"
    /\ audio_classifier = "any"
    /\ InitLocals
    /\ NoVisualizer

\* the scenario of the specification's section 8: video frames at 0.0, 0.2, 0.4,
\* 0.6, audio frames at 0.0, 0.5, period_s = 0.5
ScenarioVideo == Source("video", <<0, 2, 4, 6>>)
ScenarioAudio == Source("audio", <<0, 5>>)

InitScenario ==
    /\ video_src = ScenarioVideo
    /\ audio_src = ScenarioAudio
    /\ period_s = 5
    /\ video_classifier = "any"
    /\ audio_classifier = "any"
    /\ InitLocals
    /\ NoVisualizer

Init == InitHappy \/ InitAnyClassifier \/ InitScenario

\* Lines 62-67: the two priming pulls, outside the try statement.  A
\* StopIteration raised there leaves the generator body, which Python (PEP 479)
\* turns into a RuntimeError raised to the caller.
Prime ==
    /\ pc = "start"
    /\ IF Exhausted(video_src, 0)
       THEN /\ pc' = "raised"
            /\ error' = "RuntimeError"
            /\ UNCHANGED <<video_pos, audio_pos, video_frames, audio_frames,
                           timestamp_last, pulled>>
       ELSE IF Exhausted(audio_src, 0)
       THEN /\ video_pos' = 1
            /\ video_frames' = <<NextFrame(video_src, 0)>>
            /\ pulled' = <<NextFrame(video_src, 0)>>
            /\ pc' = "raised"
            /\ error' = "RuntimeError"
            /\ UNCHANGED <<audio_pos, audio_frames, timestamp_last>>
       ELSE /\ video_pos' = 1
            /\ audio_pos' = 1
            /\ video_frames' = <<NextFrame(video_src, 0)>>
            /\ audio_frames' = <<NextFrame(audio_src, 0)>>
            /\ pulled' = <<NextFrame(video_src, 0), NextFrame(audio_src, 0)>>
            /\ timestamp_last' = Min(NextFrame(video_src, 0).timestamp_s,
                                     NextFrame(audio_src, 0).timestamp_s)
            /\ pc' = "loop"
            /\ UNCHANGED error
    /\ UNCHANGED viz_vars
    /\ UNCHANGED <<video_src, audio_src, period_s, video_classifier,
                   audio_classifier, timestamp_current,
                   included_video_frames, included_audio_frames,
                   df_video_emotions, df_audio_emotions, signals, windows,
                   last_pull>>

\* Lines 81-129, after a successful pull: vf and af are the buffers with the new
\* frame appended.
AfterPull(vf, af) ==
    LET current == Min(Last(vf).timestamp_s, Last(af).timestamp_s)
    IN  /\ timestamp_current' = current
        /\ IF ~WindowCloses(current, timestamp_last, period_s)
           THEN /\ pc' = "loop"
                /\ UNCHANGED <<included_video_frames, included_audio_frames,
                               df_video_emotions, df_audio_emotions, error,
                               signals, windows>>
           ELSE LET inc_v == Included(vf, current)
                    inc_a == Included(af, current)
                IN  /\ included_video_frames' = inc_v
                    /\ included_audio_frames' = inc_a
                    /\ \E vout \in Outputs(inc_v, VideoClassifierRange(video_classifier)),
                          aout \in Outputs(inc_a, AudioClassifierRange(audio_classifier)) :
                         \E dfv \in {DataFrame(VideoPredictions(vout))},
                            dfa \in {DataFrame(aout)} :
                         \E audio_reward \in {ModalityReward(series_audio_coefficients, dfa)},
                            video_reward \in {ModalityReward(series_video_coefficients, dfv)} :
                         \E combined_reward \in {CombinedReward(audio_reward, video_reward)} :
                             /\ df_video_emotions' = dfv
                             /\ df_audio_emotions' = dfa
                             /\ IF ~LabelsAccepted(series_audio_coefficients, dfa)
                                   \/ ~LabelsAccepted(series_video_coefficients, dfv)
                                THEN /\ pc' = "raised"
                                     /\ error' = "ValueError"
                                     /\ UNCHANGED <<signals, windows>>
                                ELSE /\ signals' = Append(signals,
                                            RewardSignal(current, combined_reward,
                                                audio_reward, video_reward, dfa, dfv))
                                     /\ windows' = Append(windows,
                                            [timestamp_last |-> timestamp_last,
                                             timestamp_current |-> current,
                                             included_video_frames |-> inc_v,
                                             included_audio_frames |-> inc_a,
                                             video_frames |-> vf,
                                             audio_frames |-> af])
                                     /\ pc' = "yielded"
                                     /\ UNCHANGED error

\* Lines 75-129: one iteration of the while loop up to the yield (or to the end
\* of the body when no window closes).
MergeStep ==
    /\ pc = "loop"
    /\ IF AudioLags(audio_frames, video_frames)
       THEN /\ last_pull' = "audio"
            /\ IF Exhausted(audio_src, audio_pos)
               THEN /\ pc' = StopIterationCaught.pc
                    /\ error' = StopIterationCaught.error
                    /\ UNCHANGED <<audio_pos, audio_frames, pulled,
                                   timestamp_current, included_video_frames,
                                   included_audio_frames, df_video_emotions,
                                   df_audio_emotions, signals, windows>>
               ELSE /\ audio_pos' = audio_pos + 1
                    /\ audio_frames' = Append(audio_frames, NextFrame(audio_src, audio_pos))
                    /\ pulled' = Append(pulled, NextFrame(audio_src, audio_pos))
                    /\ AfterPull(video_frames,
                                 Append(audio_frames, NextFrame(audio_src, audio_pos)))
            /\ UNCHANGED <<video_pos, video_frames>>
       ELSE /\ last_pull' = "video"
            /\ IF Exhausted(video_src, video_pos)
               THEN /\ pc' = StopIterationCaught.pc
                    /\ error' = StopIterationCaught.error
                    /\ UNCHANGED <<video_pos, video_frames, pulled,
                                   timestamp_current, included_video_frames,
                                   included_audio_frames, df_video_emotions,
                                   df_audio_emotions, signals, windows>>
               ELSE /\ video_pos' = video_pos + 1
                    /\ video_frames' = Append(video_frames, NextFrame(video_src, video_pos))
                    /\ pulled' = Append(pulled, NextFrame(video_src, video_pos))
                    /\ AfterPull(Append(video_frames, NextFrame(video_src, video_pos)),
                                 audio_frames)
            /\ UNCHANGED <<audio_pos, audio_frames>>
    /\ UNCHANGED viz_vars
    /\ UNCHANGED <<video_src, audio_src, period_s, video_classifier,
                   audio_classifier, timestamp_last>>

\* Lines 131-133: the consumer asks for the next value and the generator resumes
\* after the yield.
Resume ==
    /\ pc = "yielded"
    /\ video_frames' = Retained(video_frames, timestamp_current)
    /\ audio_frames' = Retained(audio_frames, timestamp_current)
    /\ timestamp_last' = timestamp_current
    /\ pc' = "loop"
    /\ UNCHANGED viz_vars
    /\ UNCHANGED <<video_src, audio_src, video_pos, audio_pos, period_s,
                   video_classifier, audio_classifier, timestamp_current, included_video_frames,
                   included_audio_frames, df_video_emotions, df_audio_emotions,
                   error, signals, windows, last_pull, pulled>>

Next == Prime \/ MergeStep \/ Resume

Spec == Init /\ [][Next]_vars

\* sources of up to MaxFrames frames in a short time span, classifiers that
\* answer "happy"
InitDense ==
    /\ \E ts \in TimestampSeqs(MaxFrames, MaxTimeAnyClassifier) :
          video_src = Source("video", ts)
    /\ \E ts \in TimestampSeqs(MaxFrames, MaxTimeAnyClassifier) :
          audio_src = Source("audio", ts)
    /\ period_s \in 0..MaxPeriod
    /\ video_classifier = "happy"
    /\ audio_classifier = "happy"
    /\ InitLocals
    /\ NoVisualizer

\* shorter sources, a video classifier that may answer anything
InitAnyVideoClassifier ==
    /\ \E ts \in TimestampSeqs(MaxFramesAnyClassifier, MaxTimeAnyClassifier) :
          video_src = Source("video", ts)
    /\ \E ts \in TimestampSeqs(MaxFramesAnyClassifier, MaxTimeAnyClassifier) :
          audio_src = Source("audio", ts)
    /\ period_s \in 0..MaxPeriod
    /\ video_classifier \in {"happy", "any"}
    /\ audio_classifier = "happy"
    /\ InitLocals
    /\ NoVisualizer

InitFair == InitDense \/ InitAnyVideoClassifier

\* The consumer keeps asking for the next value: the generator runs whenever it
\* can take a step.
FairSpec == InitFair /\ [][Next]_vars /\ WF_vars(Next)

\* ---------------------------------------------------------------- visualizer
\* the comparison of two floats kept as fractions (the denominators are positive)
FloatLeq(x, y) == x.num * y.den <= y.num * x.den

\* max and min of floats
MaxFloat(xs) == CHOOSE x \in xs : \A y \in xs : FloatLeq(y, x)

MinFloat(xs) == CHOOSE x \in xs : \A y \in xs : FloatLeq(x, y)

\* the rewards of a signal that are not None
ObservedRewards(signal) ==
    {r \in {signal.combined_reward, signal.audio_reward, signal.video_reward} :
        r.kind /= "None"}

\* The signals a caller may draw at a timestamp: one of a window without
\* predictions, one of a window with a happy face and a happy voice, one of a
\* window with a sad voice and no face.
HappyVoice == [happy |-> ProbScale, neutral |-> 0, sad |-> 0]

SadVoice == [happy |-> 0, neutral |-> 0, sad |-> ProbScale]

DrawableSignals(ts) ==
    {RewardSignal(ts, Float(0, 1), None, None, DataFrame(<< >>), DataFrame(<< >>)),
     RewardSignal(ts, Float(2, 1), Float(1, 1), Float(1, 1),
                  DataFrame(<<HappyVoice>>), DataFrame(<<FaceRow(HappyFace)>>)),
     RewardSignal(ts, Float(-2, 1), Float(-2, 1), None,
                  DataFrame(<<SadVoice>>), DataFrame(<< >>))}

\* reward_signal.timestamp_s - elem.timestamp_s <= self._reward_window_width
KeptByWindowStrictly(latest, elem, width) ==
    latest.timestamp_s - elem.timestamp_s < width

KeptByWindow(latest, elem, width) ==
    latest.timestamp_s - elem.timestamp_s <= width

\* a visualizer of any width, one time unit below zero included; gen is not run
InitViz ==
    /\ video_src = << >>
    /\ audio_src = << >>
    /\ period_s = 0
    /\ video_classifier = "happy"
    /\ audio_classifier = "happy"
    /\ InitLocals
    /\ \E width \in -1..MaxWidth : InitVisualizer(width)

\* draw_reward_signal(reward_signal): the signal is appended, the signals older
\* than the window are dropped, the observed extremes and emotions are updated
\* and the plots are redrawn from the retained list.
DrawRewardSignal ==
    /\ Len(drawn) < MaxDraws
    /\ \E ts \in 0..MaxSignalTime : \E signal \in DrawableSignals(ts) :
          /\ time_begin' = "set"
          /\ reward_signal' =
                SelectSeq(Append(reward_signal, signal),
                          LAMBDA elem : KeptByWindow(signal, elem, reward_window_width))
          /\ max_observed_reward' =
                MaxFloat({max_observed_reward} \cup ObservedRewards(signal))
          /\ min_observed_reward' =
                MinFloat({min_observed_reward} \cup ObservedRewards(signal))
          /\ previously_observed_video_emotions' =
                previously_observed_video_emotions \cup signal.detected_video_emotions.columns
          /\ previously_observed_audio_emotions' =
                previously_observed_audio_emotions \cup signal.detected_audio_emotions.columns
          /\ drawn' = Append(drawn, signal)
    /\ UNCHANGED <<reward_window_width, gen_vars>>

NextViz == DrawRewardSignal

VizSpec == InitViz /\ [][NextViz]_vars

\* ================================================================ claims
\* equality of two Optional[float] values kept as fractions
SameValue(x, y) ==
    /\ x.kind = y.kind
    /\ x.kind = "float" => x.num * y.den = y.num * x.den

\* the stream the next merge step pulls from is exhausted
ChosenSourceExhausted ==
    IF Last(audio_frames).timestamp_s < Last(video_frames).timestamp_s
    THEN audio_pos >= Len(audio_src)
    ELSE video_pos >= Len(video_src)

\* C1 (as amended): for period_s > 0, the yielded timestamp_s values are
\* strictly increasing and consecutive ones are at least period_s apart.
C1_OrderedGapsPositivePeriod ==
    period_s > 0 =>
        \A i \in 1..(Len(signals) - 1) :
            /\ signals[i].timestamp_s < signals[i + 1].timestamp_s
            /\ signals[i + 1].timestamp_s - signals[i].timestamp_s >= period_s

\* C1 as stated: the same for whatever period_s is passed to gen.
C1_OrderedGapsAnyPeriod ==
    \A i \in 1..(Len(signals) - 1) :
        /\ signals[i].timestamp_s < signals[i + 1].timestamp_s
        /\ signals[i + 1].timestamp_s - signals[i].timestamp_s >= period_s

C1_Witness ==
    /\ period_s > 0
    /\ Len(signals) >= 2
    /\ signals[2].timestamp_s - signals[1].timestamp_s > period_s

\* C2: a pull of the merge loop that finds its source exhausted ends gen: no
\* error is raised and nothing is yielded for the frames still buffered, so the
\* signals yielded are those of the windows closed before; an ended gen yields
\* nothing more.
C2_ExhaustionDiscardsPartialWindow ==
    [][/\ (pc = "loop" /\ ChosenSourceExhausted) =>
            /\ pc' = "done"
            /\ error' = "none"
            /\ signals' = signals
            /\ video_frames' = video_frames
            /\ audio_frames' = audio_frames
       /\ pc = "done" => (pc' = "done" /\ signals' = signals)]_vars

\* gen has ended on an exhausted source after yielding, with frames pulled
\* after the last window closed still in a buffer
C2_Witness ==
    /\ pc = "done"
    /\ error = "none"
    /\ Len(signals) >= 1
    /\ \E i \in 1..Len(video_frames) :
          video_frames[i].timestamp_s > timestamp_last

\* C3: whichever pull finds its source exhausted, a priming pull or a pull of a
\* merge step, gen ends with no further value and no error.
C3_AnyExhaustionEndsCleanly ==
    [][(\/ pc = "start" /\ (Len(video_src) = 0 \/ Len(audio_src) = 0)
        \/ pc = "loop" /\ ChosenSourceExhausted) =>
            /\ pc' = "done"
            /\ error' = "none"
            /\ signals' = signals]_vars

\* a table of classifier rows without a value: no row, or only rows without
\* a label
NoLabelledRow(df) == \A i \in 1..Len(df.rows) : DOMAIN df.rows[i] = {}

\* C4 (as amended): a modality's reward is absent exactly when the classifier
\* produced no labelled row for the frames strictly inside the window; no frame
\* of the modality inside the window is one such case.
C4_AbsentIffNoRow ==
    \A i \in 1..Len(signals) :
        /\ signals[i].audio_reward = None <=> NoLabelledRow(signals[i].detected_audio_emotions)
        /\ signals[i].video_reward = None <=> NoLabelledRow(signals[i].detected_video_emotions)
        /\ windows[i].included_audio_frames = << >> => signals[i].audio_reward = None
        /\ windows[i].included_video_frames = << >> => signals[i].video_reward = None

\* C4 as stated: a modality's reward is absent exactly when no frame of the
\* modality lies strictly inside the window.
C4_AbsentIffNoFrame ==
    \A i \in 1..Len(signals) :
        /\ signals[i].audio_reward = None <=> windows[i].included_audio_frames = << >>
        /\ signals[i].video_reward = None <=> windows[i].included_video_frames = << >>

\* a window with a video frame inside for which no face was detected
C4_Witness ==
    \E i \in 1..Len(signals) :
        /\ windows[i].included_video_frames # << >>
        /\ signals[i].video_reward = None
        /\ signals[i].audio_reward # None

\* C5: a non-empty table's reward is the mean over its rows of the dot product
\* of the row with the modality's coefficients.
C5_RewardIsMeanOfDotProducts ==
    \A i \in 1..Len(signals) :
        /\ ~DataFrameEmpty(signals[i].detected_audio_emotions) =>
              SameValue(signals[i].audio_reward,
                        MeanOverRows(series_audio_coefficients,
                                     signals[i].detected_audio_emotions))
        /\ ~DataFrameEmpty(signals[i].detected_video_emotions) =>
              SameValue(signals[i].video_reward,
                        MeanOverRows(series_video_coefficients,
                                     signals[i].detected_video_emotions))

\* C6: combined_reward is present and is 1.0 * (audio_reward or 0.0) +
\* 1.0 * (video_reward or 0.0): the present reward when one is absent, 0.0
\* when both are.
C6_CombinedReward ==
    \A i \in 1..Len(signals) :
        LET a == signals[i].audio_reward
            v == signals[i].video_reward
            c == signals[i].combined_reward
        IN  /\ c # None
            /\ (a = None /\ v = None) => SameValue(c, Float(0, 1))
            /\ (a # None /\ v = None) => SameValue(c, a)
            /\ (a = None /\ v # None) => SameValue(c, v)
            /\ (a.kind = "float" /\ v.kind = "float") =>
                  SameValue(c, Float(a.num * v.den + v.num * a.den, a.den * v.den))
            /\ c = NaN <=> (a = NaN \/ v = NaN)

\* a signal with exactly one modality reward present
C6_Witness ==
    \E i \in 1..Len(signals) :
        /\ signals[i].audio_reward = None
        /\ signals[i].video_reward.kind = "float"
        /\ signals[i].video_reward.num # 0

\* a table with rows and labels whose labels are not the expected ones
LabelMismatch(labels, df) ==
    /\ Len(df.rows) > 0
    /\ df.columns # {}
    /\ df.columns # labels

AudioLabels == {"happy", "neutral", "sad"}
VideoLabels == {"angry", "disgust", "fear", "happy", "sad", "surprise", "neutral"}

\* C7: a window that closes with a non-empty table whose labels differ from
\* the expected ones raises an error instead of yielding, and nothing is
\* yielded afterwards; a window whose tables are empty or carry the expected
\* labels yields and raises nothing.
C7_LabelMismatchRaises ==
    [][/\ (pc = "loop" /\ pc' \in {"yielded", "raised"}) =>
            IF \/ LabelMismatch(AudioLabels, df_audio_emotions')
               \/ LabelMismatch(VideoLabels, df_video_emotions')
            THEN pc' = "raised" /\ error' = "ValueError" /\ signals' = signals
            ELSE pc' = "yielded" /\ error' = "none" /\ Len(signals') = Len(signals) + 1
       /\ pc = "raised" => (pc' = "raised" /\ signals' = signals)]_vars

\* a window closed with a video table that lacks a label, and gen raised
C7_Witness ==
    /\ pc = "raised"
    /\ error = "ValueError"
    /\ df_video_emotions.columns # {}
    /\ df_video_emotions.columns \subseteq VideoLabels
    /\ df_video_emotions.columns # VideoLabels

\* C8: a merge step pulls from the audio source when the last buffered audio
\* timestamp is strictly less than the last buffered video timestamp, from
\* the video source otherwise (a tie included); the frame pulled is appended
\* to its buffer and the other buffer is unchanged.
C8_MergeStepAdvancesLaggingStream ==
    [][pc = "loop" =>
        IF Last(audio_frames).timestamp_s < Last(video_frames).timestamp_s
        THEN /\ last_pull' = "audio"
             /\ video_frames' = video_frames
             /\ video_pos' = video_pos
             /\ IF audio_pos < Len(audio_src)
                THEN /\ audio_frames' = Append(audio_frames, audio_src[audio_pos + 1])
                     /\ audio_pos' = audio_pos + 1
                ELSE audio_frames' = audio_frames /\ audio_pos' = audio_pos
        ELSE /\ last_pull' = "video"
             /\ audio_frames' = audio_frames
             /\ audio_pos' = audio_pos
             /\ IF video_pos < Len(video_src)
                THEN /\ video_frames' = Append(video_frames, video_src[video_pos + 1])
                     /\ video_pos' = video_pos + 1
                ELSE video_frames' = video_frames /\ video_pos' = video_pos]_vars

\* a merge step at a tie has just pulled a video frame
C8_Witness ==
    /\ pc = "loop"
    /\ last_pull = "video"
    /\ Len(video_frames) >= 2
    /\ video_frames[Len(video_frames) - 1].timestamp_s = Last(audio_frames).timestamp_s
    /\ Last(pulled) = Last(video_frames)

InScenario ==
    video_src = ScenarioVideo /\ audio_src = ScenarioAudio /\ period_s = 5

\* C9: in the scenario (video at 0.0, 0.2, 0.4, 0.6, audio at 0.0, 0.5,
\* period_s = 0.5) the first signal has timestamp_s = 0.5 and is computed from
\* the video frames at 0.0, 0.2, 0.4 and the audio frame at 0.0.
C9_ScenarioFirstWindow ==
    (InScenario /\ Len(signals) >= 1) =>
        /\ signals[1].timestamp_s = 5
        /\ windows[1].included_video_frames = SubSeq(ScenarioVideo, 1, Len(ScenarioVideo) - 1)
        /\ windows[1].included_audio_frames = SubSeq(ScenarioAudio, 1, 1)
        /\ Len(signals[1].detected_audio_emotions.rows) = 1

C9_Witness ==
    /\ InScenario
    /\ Len(signals) >= 1
    /\ signals[1].video_reward.kind = "float"
    /\ signals[1].audio_reward.kind = "float"

\* C10: consecutive signals are exactly period_s apart (stated for the
\* positive periods, where a period is meaningful).
C10_UniformlyPeriodic ==
    period_s > 0 =>
        \A i \in 1..(Len(signals) - 1) :
            signals[i + 1].timestamp_s - signals[i].timestamp_s = period_s

\* gen has ended: it returned or it raised
Ended == pc \in {"done", "raised"}

\* C11: with a consumer that keeps asking, gen ends; the frames it pulls are
\* never more than the two sources hold, and every merge step that does not
\* end gen consumes exactly one frame, of one source.
C11_Terminates ==
    /\ <>Ended
    /\ [](Len(pulled) = video_pos + audio_pos
          /\ video_pos <= Len(video_src)
          /\ audio_pos <= Len(audio_src)
          /\ Len(signals) <= Len(pulled))
    /\ [][(pc = "loop" /\ ~Ended') =>
            /\ Len(pulled') = Len(pulled) + 1
            /\ \/ video_pos' = video_pos + 1 /\ audio_pos' = audio_pos
               \/ audio_pos' = audio_pos + 1 /\ video_pos' = video_pos]_vars

\* gen has pulled every frame of both sources, yielded, and ended
C11_Witness ==
    /\ pc = "done"
    /\ Len(signals) >= 1
    /\ Len(pulled) = Len(video_src) + Len(audio_src)
    /\ Len(pulled) >= 4

\* a merge step that obtained a frame
PulledAFrame == pc = "loop" /\ Len(pulled') = Len(pulled) + 1

\* what every step does apart from the decision to yield: timestamp_current is
\* the smaller of the two last buffered timestamps after a merge step, a yielded
\* signal carries it, a merge step yields at most one signal and leaves
\* timestamp_last alone, resuming after the yield sets timestamp_last to
\* timestamp_current, and priming sets it to the smaller first timestamp
C12_Bookkeeping ==
    /\ PulledAFrame =>
          /\ timestamp_current' = Min(Last(audio_frames').timestamp_s,
                                      Last(video_frames').timestamp_s)
          /\ timestamp_last' = timestamp_last
          /\ pc' = "yielded" => /\ signals' = Append(signals, Last(signals'))
                                /\ Last(signals').timestamp_s = timestamp_current'
          /\ pc' /= "yielded" => signals' = signals
    /\ pc = "yielded" => /\ timestamp_last' = timestamp_current
                         /\ signals' = signals
    /\ (pc = "start" /\ pc' = "loop") =>
          /\ timestamp_last' = Min(video_src[1].timestamp_s, audio_src[1].timestamp_s)
          /\ signals' = signals

\* C12 (as amended): after a merge step gen yields iff timestamp_current -
\* timestamp_last >= period_s and the label validation passes; when the window
\* closes and the validation fails it raises ValueError instead.  The signal
\* carries timestamp_current, at most one signal is yielded per merge step,
\* timestamp_last becomes timestamp_current after the yield and starts as the
\* smaller of the two first timestamps.
C12_YieldsIffWindowClosesAndLabelsMatch ==
    [][/\ C12_Bookkeeping
       /\ PulledAFrame =>
             LET closes == timestamp_current' - timestamp_last >= period_s
             IN  /\ pc' = "yielded" <=> (closes /\ error' = "none")
                 /\ (pc' = "raised" /\ error' = "ValueError")
                       <=> /\ closes
                           /\ \/ LabelMismatch(AudioLabels, df_audio_emotions')
                              \/ LabelMismatch(VideoLabels, df_video_emotions')]_vars

\* C12 (as stated): after a merge step gen yields iff timestamp_current -
\* timestamp_last >= period_s, with the same timestamps.
C12_YieldsIffWindowCloses ==
    [][/\ C12_Bookkeeping
       /\ PulledAFrame =>
             (pc' = "yielded" <=> timestamp_current' - timestamp_last >= period_s)]_vars

\* a second signal has just been yielded, its window being exactly one period long
C12_Witness ==
    /\ pc = "yielded"
    /\ Len(signals) >= 2
    /\ period_s > 0
    /\ Last(signals).timestamp_s = timestamp_current
    /\ timestamp_current - timestamp_last = period_s

\* the frames of a list
FramesOf(frames) == {frames[i] : i \in DOMAIN frames}

\* the frames of a source whose timestamps lie in [last, current)
InInterval(src, last, current) ==
    SelectSeq(src, LAMBDA frame : last <= frame.timestamp_s /\ frame.timestamp_s < current)

\* C13: the frames aggregated into a yielded signal are exactly the frames of
\* the two sources with a timestamp in [timestamp_last, timestamp_current), in
\* source order: none outside the interval, none of the interval left out.
C13_WindowAggregatesInterval ==
    \A i \in 1..Len(windows) :
        /\ windows[i].included_video_frames =
              InInterval(video_src, windows[i].timestamp_last, windows[i].timestamp_current)
        /\ windows[i].included_audio_frames =
              InInterval(audio_src, windows[i].timestamp_last, windows[i].timestamp_current)

\* a second window that holds frames of both sources, one of them stamped with
\* the closing time of the first window
C13_Witness ==
    /\ Len(windows) >= 2
    /\ windows[2].included_video_frames # << >>
    /\ windows[2].included_audio_frames # << >>
    /\ \E f \in FramesOf(windows[2].included_video_frames)
                 \cup FramesOf(windows[2].included_audio_frames) :
          f.timestamp_s = windows[1].timestamp_current

\* the frame lists handed to the classifiers so far, window by window: those of
\* the yielded signals and those of a window whose validation raised
HandedOver ==
    [i \in 1..Len(windows) |->
        [video |-> windows[i].included_video_frames,
         audio |-> windows[i].included_audio_frames]]
    \o (IF error = "ValueError"
        THEN <<[video |-> included_video_frames, audio |-> included_audio_frames]>>
        ELSE << >>)

\* C14: no frame is handed to the classifiers for two windows (or twice for
\* one); at a closure the included frames are the buffered frames before
\* timestamp_current, and resuming replaces each buffer by its frames at or
\* after timestamp_current.
C14_FrameInAtMostOneWindow ==
    /\ [](/\ \A i, j \in 1..Len(HandedOver) : i < j =>
                /\ FramesOf(HandedOver[i].video) \cap FramesOf(HandedOver[j].video) = {}
                /\ FramesOf(HandedOver[i].audio) \cap FramesOf(HandedOver[j].audio) = {}
          /\ \A i \in 1..Len(HandedOver) :
                /\ Cardinality(FramesOf(HandedOver[i].video)) = Len(HandedOver[i].video)
                /\ Cardinality(FramesOf(HandedOver[i].audio)) = Len(HandedOver[i].audio)
          /\ pc = "yielded" =>
                /\ included_video_frames =
                      SelectSeq(video_frames, LAMBDA f : f.timestamp_s < timestamp_current)
                /\ included_audio_frames =
                      SelectSeq(audio_frames, LAMBDA f : f.timestamp_s < timestamp_current))
    /\ [][pc = "yielded" =>
            /\ video_frames' =
                  SelectSeq(video_frames, LAMBDA f : f.timestamp_s >= timestamp_current)
            /\ audio_frames' =
                  SelectSeq(audio_frames, LAMBDA f : f.timestamp_s >= timestamp_current)]_vars

\* two windows have been closed over video frames, and frames are still buffered
C14_Witness ==
    /\ pc = "loop"
    /\ Len(windows) >= 2
    /\ windows[1].included_video_frames # << >>
    /\ windows[2].included_video_frames # << >>
    /\ Len(video_frames) >= 1

\* the frames buffered when window i closes that are stamped with its closing time
BoundaryFrames(i) ==
    {f \in FramesOf(windows[i].video_frames) \cup FramesOf(windows[i].audio_frames) :
        f.timestamp_s = windows[i].timestamp_current}

IncludedIn(i) ==
    FramesOf(windows[i].included_video_frames) \cup FramesOf(windows[i].included_audio_frames)

\* a frame stamped with the closing time of its window is not in that window's
\* signal, stays buffered, and is in the next signal if there is one
BoundaryFrameStartsNextWindow ==
    \A i \in 1..Len(windows) : \A f \in BoundaryFrames(i) :
        /\ f \notin IncludedIn(i)
        /\ i = Len(windows) => f \in FramesOf(video_frames) \cup FramesOf(audio_frames)
        /\ i < Len(windows) =>
              /\ f \in FramesOf(windows[i + 1].video_frames)
                        \cup FramesOf(windows[i + 1].audio_frames)
              /\ f \in IncludedIn(i + 1)

\* C15 (as amended): for period_s > 0, a buffered frame whose timestamp equals
\* the closing timestamp of a window is excluded from that window's signal, is
\* retained in its buffer, and is included in the next signal that is yielded.
C15_BoundaryFramePositivePeriod == period_s > 0 => BoundaryFrameStartsNextWindow

\* C15 (as stated): the same for any period_s.
C15_BoundaryFrameAnyPeriod == BoundaryFrameStartsNextWindow

\* a frame stamped with the first window's closing time is in the second signal
C15_Witness ==
    /\ period_s > 0
    /\ Len(windows) >= 2
    /\ \E f \in BoundaryFrames(1) : f \in IncludedIn(2)

\* the timestamp of the frame of a source pulled last among the first k pulls
LastPulled(kind, k) ==
    LET js == {j \in 1..k : pulled[j].kind = kind}
    IN  pulled[CHOOSE j \in js : \A l \in js : l <= j].timestamp_s

\* C16 (as amended): the frames of each source are pulled in that source's
\* order; a merge step pulls an audio frame only when the audio frame pulled
\* last is strictly earlier than the video frame pulled last, a video frame
\* otherwise; and the smaller of the two timestamps pulled last never decreases.
C16_LaggingSourceAdvances ==
    /\ SelectSeq(pulled, LAMBDA f : f.kind = "video") = SubSeq(video_src, 1, video_pos)
    /\ SelectSeq(pulled, LAMBDA f : f.kind = "audio") = SubSeq(audio_src, 1, audio_pos)
    /\ \A k \in 3..Len(pulled) :
          /\ pulled[k].kind = "audio" <=>
                LastPulled("audio", k - 1) < LastPulled("video", k - 1)
          /\ Min(LastPulled("audio", k - 1), LastPulled("video", k - 1))
                <= Min(LastPulled("audio", k), LastPulled("video", k))

\* C16 (as stated): the frames, in the order in which they are pulled across
\* both sources, have ascending timestamps.
C16_PullOrderAscends ==
    \A i, j \in 1..Len(pulled) : i < j => pulled[i].timestamp_s <= pulled[j].timestamp_s

\* a merge step has pulled a frame earlier than the frame pulled before it
C16_Witness ==
    /\ Len(pulled) >= 4
    /\ \E k \in 3..Len(pulled) : pulled[k].timestamp_s < pulled[k - 1].timestamp_s

\* gen is past its two priming pulls
Primed == pc \in {"loop", "yielded", "done"} \/ error = "ValueError"

\* C17: once gen is past its priming pulls, each buffer holds at least one
\* frame, its last frame being the last frame pulled from its source; this
\* includes the state right after the buffers are replaced by their retained
\* frames.
C17_BuffersNeverEmpty ==
    Primed =>
        /\ Len(video_frames) >= 1
        /\ Len(audio_frames) >= 1
        /\ Last(video_frames) = video_src[video_pos]
        /\ Last(audio_frames) = audio_src[audio_pos]

\* a window has closed over several frames and each buffer is down to one frame
C17_Witness ==
    /\ pc = "loop"
    /\ Len(windows) >= 1
    /\ Len(Last(windows).video_frames) + Len(Last(windows).audio_frames) >= 4
    /\ Len(video_frames) = 1
    /\ Len(audio_frames) = 1

\* C18: a frame stamped timestamp_last is always buffered, so for period_s > 0
\* every window that closes, whether it yields or its validation raises,
\* includes at least one frame, one stamped with the window's timestamp_last.
C18_ClosedWindowHasAFrame ==
    /\ Primed => \E f \in FramesOf(video_frames) \cup FramesOf(audio_frames) :
                    f.timestamp_s = timestamp_last
    /\ period_s > 0 =>
          /\ \A i \in 1..Len(windows) :
                \E f \in IncludedIn(i) : f.timestamp_s = windows[i].timestamp_last
          /\ (pc = "yielded" \/ error = "ValueError") =>
                \E f \in FramesOf(included_video_frames) \cup FramesOf(included_audio_frames) :
                    f.timestamp_s = timestamp_last

\* a second window has closed over a single frame
C18_Witness ==
    /\ period_s > 0
    /\ Len(windows) >= 2
    /\ Cardinality(IncludedIn(2)) = 1

\* the timestamps of the signals drawn so far never decrease
DrawnInOrder ==
    \A i \in 1..(Len(drawn) - 1) : drawn[i].timestamp_s <= drawn[i + 1].timestamp_s

\* C19: when the signals are drawn with non-decreasing timestamp_s and
\* reward_window_width >= 0, the retained list is, in arrival order, exactly
\* the signals drawn so far whose timestamp_s is within reward_window_width of
\* the timestamp_s of the signal drawn last, and its last element is that
\* signal.
C19_RetainedListIsWindow ==
    (reward_window_width >= 0 /\ DrawnInOrder) =>
        /\ reward_signal =
              SelectSeq(drawn, LAMBDA elem :
                  Last(drawn).timestamp_s - elem.timestamp_s <= reward_window_width)
        /\ drawn # << >> =>
              /\ reward_signal # << >>
              /\ Last(reward_signal) = Last(drawn)

\* three signals drawn in order: the first has been dropped, the second is kept
\* at exactly the width of the window
C19_Witness ==
    /\ reward_window_width >= 1
    /\ DrawnInOrder
    /\ Len(drawn) = 3
    /\ Len(reward_signal) = 2
    /\ drawn[3].timestamp_s - drawn[2].timestamp_s = reward_window_width


====
